---- MODULE Spec2Model ----
(***************************************************************************)
(* Model of modal/pdf_extract.py: the line-to-transaction extraction       *)
(* (parse_amount, parse_date, extract_transactions_from_lines) and the     *)
(* extract endpoint with its deduplication loop and response envelopes.    *)
(*                                                                         *)
(* A Python str is a sequence of one-character strings.  None and the      *)
(* not-yet-bound locals of str/list type are the empty sequence (both are  *)
(* falsy in the code's tests); a float amount is an integer number of      *)
(* cents, None being NoAmount.                                             *)
(***************************************************************************)
EXTENDS Integers, Sequences, FiniteSets, TLC

----------------------------------------------------------------------------
(* Characters and character classes of the regular expressions *)

Digit == {"0", "1", "2", "3", "4", "5", "6", "7", "8", "9"}

UpperCase == {"A", "B", "C", "D", "E", "F", "G", "H", "I", "J", "K", "L", "M",
              "N", "O", "P", "Q", "R", "S", "T", "U", "V", "W", "X", "Y", "Z"}

LowerCase == {"a", "b", "c", "d", "e", "f", "g", "h", "i", "j", "k", "l", "m",
              "n", "o", "p", "q", "r", "s", "t", "u", "v", "w", "x", "y", "z"}

\* \w
WordChar == Digit \cup UpperCase \cup LowerCase \cup {"_"}

\* \s, and the separators of str.split()
Space == {" ", "\t"}

\* [/-]
DateSep == {"/", "-"}

\* [\d,]
AmountChar == Digit \cup {","}

\* [\d.,\-] : the characters parse_amount keeps
AmountKeep == Digit \cup {".", ",", "-"}

DigitVal == [c \in Digit |->
               CASE c = "0" -> 0 [] c = "1" -> 1 [] c = "2" -> 2 [] c = "3" -> 3
                 [] c = "4" -> 4 [] c = "5" -> 5 [] c = "6" -> 6 [] c = "7" -> 7
                 [] c = "8" -> 8 [] c = "9" -> 9]

DigitChar == <<"0", "1", "2", "3", "4", "5", "6", "7", "8", "9">>

ToLower(c) ==
  IF c \in UpperCase
    THEN CASE c = "A" -> "a" [] c = "B" -> "b" [] c = "C" -> "c" [] c = "D" -> "d"
           [] c = "E" -> "e" [] c = "F" -> "f" [] c = "G" -> "g" [] c = "H" -> "h"
           [] c = "I" -> "i" [] c = "J" -> "j" [] c = "K" -> "k" [] c = "L" -> "l"
           [] c = "M" -> "m" [] c = "N" -> "n" [] c = "O" -> "o" [] c = "P" -> "p"
           [] c = "Q" -> "q" [] c = "R" -> "r" [] c = "S" -> "s" [] c = "T" -> "t"
           [] c = "U" -> "u" [] c = "V" -> "v" [] c = "W" -> "w" [] c = "X" -> "x"
           [] c = "Y" -> "y" [] c = "Z" -> "z"
    ELSE c

Min(S) == CHOOSE x \in S : \A y \in S : x <= y

----------------------------------------------------------------------------
(* String primitives *)

\* s[i] in Python terms, "" past either end
CharAt(s, i) == IF i >= 1 /\ i <= Len(s) THEN s[i] ELSE ""

InClassAt(s, i, class) == i >= 1 /\ i <= Len(s) /\ s[i] \in class

\* n consecutive digits starting at i: \d{n}
DigitsAt(s, i, n) == \A k \in 0 .. (n - 1) : InClassAt(s, i + k, Digit)

\* length of the longest run of class characters starting at i: the greedy X*
RunLen(s, i, class) ==
  IF i > Len(s) THEN 0
  ELSE Min({j \in i .. (Len(s) + 1) : ~ InClassAt(s, j, class)}) - i

\* decimal value of a sequence of digits
RECURSIVE NumVal(_)
NumVal(ds) ==
  IF ds = <<>> THEN 0
  ELSE 10 * NumVal(SubSeq(ds, 1, Len(ds) - 1)) + DigitVal[ds[Len(ds)]]

\* decimal digits of n >= 0, without padding
RECURSIVE NumStr(_)
NumStr(n) ==
  IF n < 10 THEN <<DigitChar[n + 1]>>
  ELSE NumStr(n \div 10) \o <<DigitChar[(n % 10) + 1]>>

\* two decimal digits of n in 0..99
Pad2(n) == <<DigitChar[(n \div 10) + 1], DigitChar[(n % 10) + 1]>>

\* whether sub occurs in s at position i
OccursAt(s, i, sub) ==
  /\ i + Len(sub) - 1 <= Len(s)
  /\ \A k \in 1 .. Len(sub) : s[i + k - 1] = sub[k]

\* str.replace(sub, ''): every non-overlapping occurrence, leftmost first
RECURSIVE RemoveAllFrom(_, _, _)
RemoveAllFrom(s, i, sub) ==
  LET at == {p \in i .. Len(s) : OccursAt(s, p, sub)}
  IN IF sub = <<>> \/ at = {} THEN SubSeq(s, i, Len(s))
     ELSE SubSeq(s, i, Min(at) - 1) \o RemoveAllFrom(s, Min(at) + Len(sub), sub)

StrReplaceEmpty(s, sub) == RemoveAllFrom(s, 1, sub)

\* length of the run of non-whitespace characters starting at i
WordLen(s, i) ==
  Min({j \in i .. (Len(s) + 1) : j > Len(s) \/ s[j] \in Space}) - i

\* str.split(): the maximal runs of non-whitespace characters
RECURSIVE SplitFrom(_, _)
SplitFrom(s, i) ==
  LET at == {p \in i .. Len(s) : s[p] \notin Space}
  IN IF at = {} THEN <<>>
     ELSE <<SubSeq(s, Min(at), Min(at) + WordLen(s, Min(at)) - 1)>>
            \o SplitFrom(s, Min(at) + WordLen(s, Min(at)))

StrSplit(s) == SplitFrom(s, 1)

\* ' '.join(words)
RECURSIVE JoinSpace(_)
JoinSpace(words) ==
  IF words = <<>> THEN <<>>
  ELSE IF Len(words) = 1 THEN words[1]
  ELSE words[1] \o <<" ">> \o JoinSpace(Tail(words))

\* str.strip()
StrStrip(s) ==
  LET keep == {k \in 1 .. Len(s) : s[k] \notin Space}
  IN IF keep = {} THEN <<>>
     ELSE SubSeq(s, Min(keep), CHOOSE k \in keep : \A m \in keep : m <= k)

\* s[:n]
Prefix(s, n) == SubSeq(s, 1, IF Len(s) < n THEN Len(s) ELSE n)

----------------------------------------------------------------------------
(* Regular expressions: MatchLen(re, s, i) is the length of the match of   *)
(* re that starts at position i of s, 0 when re does not match there.      *)
(* Every quantified item is followed by a character outside its class, so  *)
(* the greedy choice is the only one backtracking can succeed with.        *)

\* (\d{4})-(\d{2})-(\d{2})
MatchYmdDash(s, i) ==
  IF /\ DigitsAt(s, i, 4) /\ CharAt(s, i + 4) = "-"
     /\ DigitsAt(s, i + 5, 2) /\ CharAt(s, i + 7) = "-"
     /\ DigitsAt(s, i + 8, 2)
    THEN 10 ELSE 0

\* (\d{2})<sep>(\d{2})<sep>(\d{n}), n = 4 or 2
MatchDmy(s, i, sep, n) ==
  IF /\ DigitsAt(s, i, 2) /\ CharAt(s, i + 2) = sep
     /\ DigitsAt(s, i + 3, 2) /\ CharAt(s, i + 5) = sep
     /\ DigitsAt(s, i + 6, n)
    THEN 6 + n ELSE 0

\* (\w{3})\s+(\d{1,2}),?\s+(\d{4})
MatchMonDY(s, i) ==
  LET w  == 3
      s1 == RunLen(s, i + w, Space)
      p1 == i + w + s1
      d  == IF RunLen(s, p1, Digit) >= 2 THEN 2 ELSE RunLen(s, p1, Digit)
      c  == IF CharAt(s, p1 + d) = "," THEN 1 ELSE 0
      p2 == p1 + d + c
      s2 == RunLen(s, p2, Space)
  IN IF /\ \A k \in 0 .. (w - 1) : InClassAt(s, i + k, WordChar)
        /\ s1 >= 1 /\ d >= 1 /\ s2 >= 1
        /\ DigitsAt(s, p2 + s2, 4)
       THEN (p2 + s2 + 4) - i ELSE 0

\* [\d,]+\.\d{2}
MatchAmount(s, i) ==
  LET n == RunLen(s, i, AmountChar)
  IN IF n >= 1 /\ CharAt(s, i + n) = "." /\ DigitsAt(s, i + n + 1, 2)
       THEN n + 3 ELSE 0

\* \d{1,2}[/-]\d{1,2}[/-]\d{2,4}
MatchGenericDmy(s, i) ==
  LET a  == IF RunLen(s, i, Digit) >= 2 THEN 2 ELSE RunLen(s, i, Digit)
      p1 == i + a + 1
      b  == IF RunLen(s, p1, Digit) >= 2 THEN 2 ELSE RunLen(s, p1, Digit)
      p2 == p1 + b + 1
      y  == IF RunLen(s, p2, Digit) >= 4 THEN 4 ELSE RunLen(s, p2, Digit)
  IN IF /\ a >= 1 /\ InClassAt(s, i + a, DateSep)
        /\ b >= 1 /\ InClassAt(s, p1 + b, DateSep)
        /\ y >= 2
       THEN (p2 + y) - i ELSE 0

\* \d{4}[/-]\d{2}[/-]\d{2}
MatchGenericYmd(s, i) ==
  IF /\ DigitsAt(s, i, 4) /\ InClassAt(s, i + 4, DateSep)
     /\ DigitsAt(s, i + 5, 2) /\ InClassAt(s, i + 7, DateSep)
     /\ DigitsAt(s, i + 8, 2)
    THEN 10 ELSE 0

MatchLen(re, s, i) ==
  CASE re = "ymd_dash"     -> MatchYmdDash(s, i)
    [] re = "dmy_slash"    -> MatchDmy(s, i, "/", 4)
    [] re = "dmy_dash"     -> MatchDmy(s, i, "-", 4)
    [] re = "dmy_slash_yy" -> MatchDmy(s, i, "/", 2)
    [] re = "mon_d_y"      -> MatchMonDY(s, i)
    [] re = "amount"       -> MatchAmount(s, i)
    [] re = "generic_dmy"  -> MatchGenericDmy(s, i)
    [] re = "generic_ymd"  -> MatchGenericYmd(s, i)

\* re.search(re, s).group(0): the leftmost match, <<>> when there is none
ReSearch(re, s) ==
  LET at == {i \in 1 .. Len(s) : MatchLen(re, s, i) > 0}
  IN IF at = {} THEN <<>>
     ELSE SubSeq(s, Min(at), Min(at) + MatchLen(re, s, Min(at)) - 1)

\* re.findall(re, s): the non-overlapping matches, left to right
RECURSIVE FindAllFrom(_, _, _)
FindAllFrom(re, s, i) ==
  LET at == {p \in i .. Len(s) : MatchLen(re, s, p) > 0}
  IN IF at = {} THEN <<>>
     ELSE <<SubSeq(s, Min(at), Min(at) + MatchLen(re, s, Min(at)) - 1)>>
            \o FindAllFrom(re, s, Min(at) + MatchLen(re, s, Min(at)))

ReFindAll(re, s) == FindAllFrom(re, s, 1)

\* re.sub(re, '', s): the non-overlapping matches removed
RECURSIVE SubEmptyFrom(_, _, _)
SubEmptyFrom(re, s, i) ==
  LET at == {p \in i .. Len(s) : MatchLen(re, s, p) > 0}
  IN IF at = {} THEN SubSeq(s, i, Len(s))
     ELSE SubSeq(s, i, Min(at) - 1)
            \o SubEmptyFrom(re, s, Min(at) + MatchLen(re, s, Min(at)))

ReSubEmpty(re, s) == SubEmptyFrom(re, s, 1)

----------------------------------------------------------------------------
(* datetime.strptime and datetime.strftime *)

\* a ValueError of strptime
NoDateTime == [ok |-> FALSE, year |-> 0, month |-> 0, day |-> 0]

MonthAbbr == << <<"j", "a", "n">>, <<"f", "e", "b">>, <<"m", "a", "r">>,
                <<"a", "p", "r">>, <<"m", "a", "y">>, <<"j", "u", "n">>,
                <<"j", "u", "l">>, <<"a", "u", "g">>, <<"s", "e", "p">>,
                <<"o", "c", "t">>, <<"n", "o", "v">>, <<"d", "e", "c">> >>

\* %b is matched ignoring case; 0 when the text is no month abbreviation
MonthOfAbbr(w) ==
  LET lw == [k \in 1 .. Len(w) |-> ToLower(w[k])]
      ms == {m \in 1 .. 12 : MonthAbbr[m] = lw}
  IN IF ms = {} THEN 0 ELSE CHOOSE m \in ms : TRUE

IsLeap(y) == (y % 4 = 0 /\ y % 100 # 0) \/ y % 400 = 0

DaysInMonth(y, m) ==
  IF m = 2 THEN (IF IsLeap(y) THEN 29 ELSE 28)
  ELSE IF m \in {4, 6, 9, 11} THEN 30 ELSE 31

\* %y: 69..99 are 1969..1999, 0..68 are 2000..2068
PivotYear(yy) == IF yy >= 69 THEN 1900 + yy ELSE 2000 + yy

(* The directive values strptime reads from date_str, which has the shape  *)
(* the pattern paired with fmt matched: year, month and day as numbers,    *)
(* month 0 for an unknown abbreviation.                                    *)
StrptimeFieldsMonthFirst(date_str, fmt) ==
  CASE fmt = "%Y-%m-%d" ->
         [year  |-> NumVal(SubSeq(date_str, 1, 4)),
          month |-> NumVal(SubSeq(date_str, 6, 7)),
          day   |-> NumVal(SubSeq(date_str, 9, 10))]
    [] fmt \in {"%d/%m/%Y", "%d-%m-%Y"} ->
         [year  |-> NumVal(SubSeq(date_str, 7, 10)),
          month |-> NumVal(SubSeq(date_str, 1, 2)),
          day   |-> NumVal(SubSeq(date_str, 4, 5))]
    [] fmt = "%d/%m/%y" ->
         [year  |-> PivotYear(NumVal(SubSeq(date_str, 7, 8))),
          month |-> NumVal(SubSeq(date_str, 1, 2)),
          day   |-> NumVal(SubSeq(date_str, 4, 5))]
    [] fmt = "%b %d %Y" ->
         [year  |-> NumVal(StrSplit(date_str)[3]),
          month |-> MonthOfAbbr(StrSplit(date_str)[1]),
          day   |-> NumVal(StrSplit(date_str)[2])]

StrptimeFields(date_str, fmt) ==
  CASE fmt = "%Y-%m-%d" ->
         [year  |-> NumVal(SubSeq(date_str, 1, 4)),
          month |-> NumVal(SubSeq(date_str, 6, 7)),
          day   |-> NumVal(SubSeq(date_str, 9, 10))]
    [] fmt \in {"%d/%m/%Y", "%d-%m-%Y"} ->
         [year  |-> NumVal(SubSeq(date_str, 7, 10)),
          month |-> NumVal(SubSeq(date_str, 4, 5)),
          day   |-> NumVal(SubSeq(date_str, 1, 2))]
    [] fmt = "%d/%m/%y" ->
         [year  |-> PivotYear(NumVal(SubSeq(date_str, 7, 8))),
          month |-> NumVal(SubSeq(date_str, 4, 5)),
          day   |-> NumVal(SubSeq(date_str, 1, 2))]
    [] fmt = "%b %d %Y" ->
         [year  |-> NumVal(StrSplit(date_str)[3]),
          month |-> MonthOfAbbr(StrSplit(date_str)[1]),
          day   |-> NumVal(StrSplit(date_str)[2])]

(* datetime.strptime(date_str, fmt): the directives accept month 1..12 and *)
(* day 1..31 only, and datetime() rejects year 0 and a day past the end of *)
(* the month; every rejection is a ValueError.                             *)
Strptime(date_str, fmt) ==
  LET f == StrptimeFields(date_str, fmt)
  IN IF /\ f.year >= 1
        /\ f.month >= 1 /\ f.month <= 12
        /\ f.day >= 1 /\ f.day <= DaysInMonth(f.year, f.month)
       THEN [ok |-> TRUE, year |-> f.year, month |-> f.month, day |-> f.day]
       ELSE NoDateTime

(* dt.strftime('%Y-%m-%d') on the image the module builds (debian_slim,    *)
(* Python 3.10, glibc): %m and %d are zero-padded to two digits, %Y is the *)
(* year's decimal digits without padding, so year 999 prints as "999".     *)
Strftime(dt) ==
  NumStr(dt.year) \o <<"-">> \o Pad2(dt.month) \o <<"-">> \o Pad2(dt.day)

----------------------------------------------------------------------------
(* parse_date *)

patterns ==
  << [re |-> "ymd_dash",     fmt |-> "%Y-%m-%d"],
     [re |-> "dmy_slash",    fmt |-> "%d/%m/%Y"],
     [re |-> "dmy_dash",     fmt |-> "%d-%m-%Y"],
     [re |-> "dmy_slash_yy", fmt |-> "%d/%m/%y"],
     [re |-> "mon_d_y",      fmt |-> "%b %d %Y"] >>

\* the body of the loop over patterns from pattern k on; <<>> is None
RECURSIVE ParseDateFrom(_, _)
ParseDateFrom(text, k) ==
  IF k > Len(patterns) THEN <<>>
  ELSE LET match    == ReSearch(patterns[k].re, text)
           date_str == StrReplaceEmpty(match, <<",">>)
       IN IF match # <<>>
            THEN IF Strptime(date_str, patterns[k].fmt).ok
                   THEN Strftime(Strptime(date_str, patterns[k].fmt))
                   ELSE ParseDateFrom(text, k + 1)
            ELSE ParseDateFrom(text, k + 1)

parse_date(text) == ParseDateFrom(text, 1)

----------------------------------------------------------------------------
(* parse_amount *)

\* None as an amount; an amount is a number of cents otherwise
NoAmount == -1

\* re.sub(r'[^\d.,\-]', '', text)
KeepAmountChars(text) == SelectSeq(text, LAMBDA c : c \in AmountKeep)

(* float(cleaned) for a string of digits, periods and minus signs: the     *)
(* value in cents, ok = FALSE for the ValueError.  float accepts one       *)
(* optional leading sign and digits around at most one period, with at     *)
(* least one digit.  The amounts the extractor passes have exactly two     *)
(* decimals; further decimals are below the cent this model counts in.     *)
FloatCents(cleaned) ==
  LET neg  == CharAt(cleaned, 1) = "-"
      body == IF neg THEN Tail(cleaned) ELSE cleaned
      dots == {k \in 1 .. Len(body) : body[k] = "."}
      ip   == IF dots = {} THEN body ELSE SubSeq(body, 1, Min(dots) - 1)
      fp   == IF dots = {} THEN <<>> ELSE SubSeq(body, Min(dots) + 1, Len(body))
      mag  == 100 * NumVal(ip) + NumVal(Prefix(fp \o <<"0", "0">>, 2))
  IN IF /\ Cardinality(dots) <= 1
        /\ \A k \in 1 .. Len(body) : body[k] \in Digit \cup {"."}
        /\ Len(ip) + Len(fp) >= 1
       THEN [ok |-> TRUE, cents |-> IF neg THEN 0 - mag ELSE mag]
       ELSE [ok |-> FALSE, cents |-> 0]

Abs(x) == IF x < 0 THEN 0 - x ELSE x

parse_amount(text) ==
  LET cleaned == KeepAmountChars(text)
      value   == FloatCents(StrReplaceEmpty(cleaned, <<",">>))
  IN IF cleaned = <<>> THEN NoAmount
     ELSE IF value.ok THEN Abs(value.cents) ELSE NoAmount

(* repr(float) as the f-string of the key prints it: the integer part, a   *)
(* period and the decimals without trailing zeros, at least one.  Amounts  *)
(* stay below 1e16, where repr switches to exponent notation.              *)
FloatRepr(cents) ==
  NumStr(cents \div 100) \o <<".">> \o
    (IF cents % 100 = 0 THEN <<"0">>
     ELSE IF cents % 10 = 0 THEN <<DigitChar[((cents % 100) \div 10) + 1]>>
     ELSE Pad2(cents % 100))

----------------------------------------------------------------------------
(* extract_transactions_from_lines: the body of one iteration *)

\* desc[:100]
DescMax == 100

\* for amt in amounts: desc = desc.replace(amt, '')
RECURSIVE RemoveAmounts(_, _)
RemoveAmounts(desc0, amts) ==
  IF amts = <<>> THEN desc0
  ELSE RemoveAmounts(StrReplaceEmpty(desc0, Head(amts)), Tail(amts))

\* the description left once amounts and date shapes are removed
IsolateDescription(ln, amts) ==
  LET d1 == RemoveAmounts(ln, amts)
      d2 == ReSubEmpty("generic_dmy", d1)
      d3 == ReSubEmpty("generic_ymd", d2)
  IN StrStrip(JoinSpace(StrSplit(d3)))

\* amounts[0]
FirstAmount(amts) == amts[1]

\* amounts[-1]
LastAmount(amts) == amts[Len(amts)]

\* the dict appended to transactions
Transaction(d, ds, amt) ==
  [date |-> d, description |-> Prefix(ds, DescMax), amount |-> amt]

----------------------------------------------------------------------------
(* The deduplication of extract *)

\* txn['description'][:20]
KeyPrefix == 20

\* the key without its separators
KeyNoSeparator(txn) ==
  txn.date \o FloatRepr(txn.amount) \o Prefix(txn.description, KeyPrefix)

\* f"{txn['date']}_{txn['amount']}_{txn['description'][:20]}"
Key(txn) ==
  txn.date \o <<"_">> \o FloatRepr(txn.amount) \o <<"_">>
           \o Prefix(txn.description, KeyPrefix)

\* a set that remembers the last key only
SeenLastOnly(seen_keys, k) == {k}

\* seen.add(key)
SeenAdd(seen_keys, k) == seen_keys \cup {k}

\* unique_transactions.insert(0, txn)
EmitFront(unique, txn) == <<txn>> \o unique

\* unique_transactions.append(txn)
Emit(unique, txn) == Append(unique, txn)

\* one iteration of the loop over transactions
DedupIter(st, txn) ==
  IF Key(txn) \notin st.seen
    THEN [seen |-> SeenAdd(st.seen, Key(txn)), unique |-> Emit(st.unique, txn)]
    ELSE st

\* the whole loop, from empty seen and unique_transactions
RECURSIVE DedupFold(_, _)
DedupFold(st, txns) ==
  IF txns = <<>> THEN st ELSE DedupFold(DedupIter(st, Head(txns)), Tail(txns))

Dedupe(txns) == DedupFold([seen |-> {}, unique |-> <<>>], txns).unique

----------------------------------------------------------------------------
(* The text lines the OCR engine reads off a page image.  Each definition  *)
(* is the line quoted above it.                                            *)

\* "Page 3 of 10"
LinePage ==
  <<"P", "a", "g", "e", " ", "3", " ", "o", "f", " ", "1", "0">>

\* "03/15/2024 GROCERY STORE PURCHASE 1,234.56"
LineGrocery ==
  <<"0", "3", "/", "1", "5", "/", "2", "0", "2", "4", " ", "G", "R", "O",
    "C", "E", "R", "Y", " ", "S", "T", "O", "R", "E", " ", "P", "U", "R",
    "C", "H", "A", "S", "E", " ", "1", ",", "2", "3", "4", ".", "5", "6">>

\* "15/03/2024 GROCERY 1,234.56"
LineDayFirst ==
  <<"1", "5", "/", "0", "3", "/", "2", "0", "2", "4", " ", "G", "R", "O",
    "C", "E", "R", "Y", " ", "1", ",", "2", "3", "4", ".", "5", "6">>

\* "31/04/2024 ABCD 5.00"
LineInvalid ==
  <<"3", "1", "/", "0", "4", "/", "2", "0", "2", "4", " ", "A", "B", "C",
    "D", " ", "5", ".", "0", "0">>

\* "2024-01-05 AB 5.00"
LineIsoShort ==
  <<"2", "0", "2", "4", "-", "0", "1", "-", "0", "5", " ", "A", "B", " ",
    "5", ".", "0", "0">>

\* "2024-01-05 5.00"
LineIsoBare ==
  <<"2", "0", "2", "4", "-", "0", "1", "-", "0", "5", " ", "5", ".", "0",
    "0">>

\* "2024-01-05 COFFEE 5.00"
LineIsoCoffee ==
  <<"2", "0", "2", "4", "-", "0", "1", "-", "0", "5", " ", "C", "O", "F",
    "F", "E", "E", " ", "5", ".", "0", "0">>

\* "05/01/0999 ABCD 5.00"
LineYear999 ==
  <<"0", "5", "/", "0", "1", "/", "0", "9", "9", "9", " ", "A", "B", "C",
    "D", " ", "5", ".", "0", "0">>

\* "29/02/2023 ABCD 5.00"
LineFeb29 ==
  <<"2", "9", "/", "0", "2", "/", "2", "0", "2", "3", " ", "A", "B", "C",
    "D", " ", "5", ".", "0", "0">>

\* "05/01/24 ABCD 5.00"
LineYY ==
  <<"0", "5", "/", "0", "1", "/", "2", "4", " ", "A", "B", "C", "D", " ",
    "5", ".", "0", "0">>

\* "05/02/2023 2024-01-05 ABCD 5.00"
LineTwoDates ==
  <<"0", "5", "/", "0", "2", "/", "2", "0", "2", "3", " ", "2", "0", "2",
    "4", "-", "0", "1", "-", "0", "5", " ", "A", "B", "C", "D", " ", "5",
    ".", "0", "0">>

\* "05/01/2024 ABCD 7.00 0.00"
LineZeroLast ==
  <<"0", "5", "/", "0", "1", "/", "2", "0", "2", "4", " ", "A", "B", "C",
    "D", " ", "7", ".", "0", "0", " ", "0", ".", "0", "0">>

\* "05/01/2024 ABCD 9.99 7.00"
LineTwoAmounts ==
  <<"0", "5", "/", "0", "1", "/", "2", "0", "2", "4", " ", "A", "B", "C",
    "D", " ", "9", ".", "9", "9", " ", "7", ".", "0", "0">>

\* "05/01/2024 ABCD"
LineNoAmount ==
  <<"0", "5", "/", "0", "1", "/", "2", "0", "2", "4", " ", "A", "B", "C",
    "D">>

\* "05/01/2024 AB 5.00"
LineShort ==
  <<"0", "5", "/", "0", "1", "/", "2", "0", "2", "4", " ", "A", "B", " ",
    "5", ".", "0", "0">>

\* "05/01/2024 ABCD 5.00"
LineA ==
  <<"0", "5", "/", "0", "1", "/", "2", "0", "2", "4", " ", "A", "B", "C",
    "D", " ", "5", ".", "0", "0">>

\* "05-01-2024 ABCD 5.00"
LineADash ==
  <<"0", "5", "-", "0", "1", "-", "2", "0", "2", "4", " ", "A", "B", "C",
    "D", " ", "5", ".", "0", "0">>

\* "05/01/2024 ABCD 7.00"
LineA7 ==
  <<"0", "5", "/", "0", "1", "/", "2", "0", "2", "4", " ", "A", "B", "C",
    "D", " ", "7", ".", "0", "0">>

\* "06/01/2024 ABCD 5.00"
LineB ==
  <<"0", "6", "/", "0", "1", "/", "2", "0", "2", "4", " ", "A", "B", "C",
    "D", " ", "5", ".", "0", "0">>

\* "Jan 5, 2024 COFFEE 3.50"
LineMonthName ==
  <<"J", "a", "n", " ", "5", ",", " ", "2", "0", "2", "4", " ", "C", "O",
    "F", "F", "E", "E", " ", "3", ".", "5", "0">>

\* "Xyz 5 2024 COFFEE 3.50"
LineMonthBad ==
  <<"X", "y", "z", " ", "5", " ", "2", "0", "2", "4", " ", "C", "O", "F",
    "F", "E", "E", " ", "3", ".", "5", "0">>

\* "05/01/2024  AB \t CD  5.00"
LineSpaces ==
  <<"0", "5", "/", "0", "1", "/", "2", "0", "2", "4", " ", " ", "A", "B",
    " ", "\t", " ", "C", "D", " ", " ", "5", ".", "0", "0">>

\* "05/01/2024 ABCDEFGHIJKLMNOPQRST-X 5.00"
LinePrefixX ==
  <<"0", "5", "/", "0", "1", "/", "2", "0", "2", "4", " ", "A", "B", "C",
    "D", "E", "F", "G", "H", "I", "J", "K", "L", "M", "N", "O", "P", "Q",
    "R", "S", "T", "-", "X", " ", "5", ".", "0", "0">>

\* "05/01/2024 ABCDEFGHIJKLMNOPQRST-Y 5.00"
LinePrefixY ==
  <<"0", "5", "/", "0", "1", "/", "2", "0", "2", "4", " ", "A", "B", "C",
    "D", "E", "F", "G", "H", "I", "J", "K", "L", "M", "N", "O", "P", "Q",
    "R", "S", "T", "-", "Y", " ", "5", ".", "0", "0">>

\* "05/01/2024 AB_5.0_CD 5.00"
LineUnderscore ==
  <<"0", "5", "/", "0", "1", "/", "2", "0", "2", "4", " ", "A", "B", "_",
    "5", ".", "0", "_", "C", "D", " ", "5", ".", "0", "0">>

\* "05/01/2024 1ABCD 5.00"
LineDigitLabel ==
  <<"0", "5", "/", "0", "1", "/", "2", "0", "2", "4", " ", "1", "A", "B",
    "C", "D", " ", "5", ".", "0", "0">>

\* "05/01/2024 ABCD 5.01"
LineFiveOhOne ==
  <<"0", "5", "/", "0", "1", "/", "2", "0", "2", "4", " ", "A", "B", "C",
    "D", " ", "5", ".", "0", "1">>

\* "05/01/2024 AAA...A BC 5.00": a label whose character DescMax is a space
LineLong ==
  <<"0", "5", "/", "0", "1", "/", "2", "0", "2", "4", " ">>
    \o [k \in 1 .. (DescMax - 1) |-> "A"]
    \o <<" ", "B", "C", " ", "5", ".", "0", "0">>

(* What ocr.ocr returns for one page image, as the texts of result[0] in   *)
(* reading order; the empty sequence is a result of None or [None].        *)
OcrResults ==
  { <<>>,
    <<LinePage, LineA, LineB, LineADash>>,
    <<LineGrocery, LineDayFirst, LineInvalid>>,
    <<LineIsoShort, LineIsoBare, LineIsoCoffee>>,
    <<LineYear999, LineFeb29, LineYY, LineTwoDates>>,
    <<LineLong>>,
    <<LineZeroLast, LineTwoAmounts, LineA7, LineNoAmount, LineShort>>,
    <<LineMonthName, LineMonthBad, LineSpaces>>,
    <<LinePrefixX, LinePrefixY, LineUnderscore>>,
    <<LineDigitLabel, LineFiveOhOne, LineA>> }

----------------------------------------------------------------------------
(* The extract endpoint *)

\* the largest number of page images convert_from_path returns
MaxPages == 2

\* data.get("pdf_base64", ""): absent, "", not decodable, or a document
RequestData == {"absent", "empty", "malformed", "pdf"}

\* Python values of the envelope's error field
PyNone == [type |-> "NoneType"]
PyStr(text) == [type |-> "str", value |-> text]

\* the envelope of the return at the end of the try block
OkEnvelopeNoPages(unique, n) ==
  [transactions |-> unique, error |-> PyNone]

OkEnvelope(unique, n) ==
  [transactions |-> unique, error |-> PyNone, pages_processed |-> n]

\* the envelope of the early return and of the except clause
ErrorEnvelope(text) ==
  [transactions |-> <<>>, error |-> PyStr(text)]

\* no envelope returned yet
NoResponse == [type |-> "pending"]

VARIABLES
  data,                 \* the request's pdf_base64
  pc,                   \* the statement extract is at
  images,               \* len(images)
  page,                 \* number of images the OCR loop has gone through
  all_lines,            \* all_lines
  i,                    \* number of lines the extraction loop has gone through
  line,                 \* locals of extract_transactions_from_lines
  date,
  amounts,
  amount,
  desc,
  transactions,
  j,                    \* number of transactions the dedup loop has gone through
  seen,                 \* locals of the deduplication
  unique_transactions,
  response              \* the envelope returned

vars == <<data, pc, images, page, all_lines, i, line, date, amounts, amount,
          desc, transactions, j, seen, unique_transactions, response>>

ocr_vars == <<images, page, all_lines>>
line_vars == <<i, line, date, amounts, amount, desc, transactions>>
dedup_vars == <<j, seen, unique_transactions>>

Init ==
  /\ data \in RequestData
  /\ pc = "decode"
  /\ images = 0
  /\ page = 0
  /\ all_lines = <<>>
  /\ i = 0
  /\ line = <<>>
  /\ date = <<>>
  /\ amounts = <<>>
  /\ amount = NoAmount
  /\ desc = <<>>
  /\ transactions = <<>>
  /\ j = 0
  /\ seen = {}
  /\ unique_transactions = <<>>
  /\ response = NoResponse

\* except Exception as e: return the error envelope
Raise(text) ==
  /\ pc' = "returned_except"
  /\ response' = ErrorEnvelope(text)

\* pdf_bytes = base64.b64decode(...); if not pdf_bytes: return ...
Decode ==
  /\ pc = "decode"
  /\ \/ /\ data \in {"absent", "empty"}
        /\ pc' = "returned_no_pdf"
        /\ response' = ErrorEnvelope("No PDF data provided")
     \/ /\ data = "malformed"
        /\ Raise("Incorrect padding")
     \/ /\ data = "pdf"
        /\ pc' = "tempfile"
        /\ UNCHANGED response
  /\ UNCHANGED <<data, ocr_vars, line_vars, dedup_vars>>

\* with tempfile.NamedTemporaryFile(...) as f: f.write(pdf_bytes)
SaveTempFile ==
  /\ pc = "tempfile"
  /\ \/ pc' = "convert" /\ UNCHANGED response
     \/ Raise("No space left on device")
  /\ UNCHANGED <<data, ocr_vars, line_vars, dedup_vars>>

\* images = convert_from_path(pdf_path, dpi=150)
ConvertPages ==
  /\ pc = "convert"
  /\ \/ /\ \E n \in 0 .. MaxPages : images' = n
        /\ pc' = "ocr_init"
        /\ UNCHANGED response
     \/ /\ Raise("Unable to get page count.")
        /\ UNCHANGED images
  /\ UNCHANGED <<data, page, all_lines, line_vars, dedup_vars>>

\* ocr = PaddleOCR(...); all_lines = []
InitOcr ==
  /\ pc = "ocr_init"
  /\ \/ pc' = "ocr_pages" /\ UNCHANGED response
     \/ Raise("(External) model load failed")
  /\ UNCHANGED <<data, ocr_vars, line_vars, dedup_vars>>

\* one iteration of: for img in images
OcrPage ==
  /\ pc = "ocr_pages"
  /\ page < images
  /\ \/ /\ \E result \in OcrResults : all_lines' = all_lines \o result
        /\ page' = page + 1
        /\ UNCHANGED <<pc, response>>
     \/ /\ \E text \in {"", "(PreconditionNotMet) inference failed"} : Raise(text)
        /\ UNCHANGED <<page, all_lines>>
  /\ UNCHANGED <<data, images, line_vars, dedup_vars>>

\* the call of extract_transactions_from_lines(all_lines): transactions = []
CallExtractLines ==
  /\ pc = "ocr_pages"
  /\ page = images
  /\ pc' = "extract_lines"
  /\ transactions' = <<>>
  /\ i' = 0
  /\ UNCHANGED <<data, ocr_vars, line, date, amounts, amount, desc, dedup_vars,
                 response>>

(* One iteration of: for line in lines.  A continue leaves the locals the  *)
(* iteration has not reached as the previous iteration left them.          *)
ExtractLine ==
  /\ pc = "extract_lines"
  /\ i < Len(all_lines)
  /\ i' = i + 1
  /\ line' = all_lines[i + 1]
  /\ date' = parse_date(line')
  /\ IF date' = <<>>
       THEN UNCHANGED <<amounts, amount, desc, transactions>>
       ELSE /\ amounts' = ReFindAll("amount", line')
            /\ IF amounts' = <<>>
                 THEN UNCHANGED <<amount, desc, transactions>>
                 ELSE /\ amount' = parse_amount(LastAmount(amounts'))
                      /\ IF amount' = NoAmount \/ amount' <= 0
                           THEN UNCHANGED <<desc, transactions>>
                           ELSE /\ desc' = IsolateDescription(line', amounts')
                                /\ transactions' =
                                     IF Len(desc') > 3
                                       THEN Append(transactions,
                                              Transaction(date', desc', amount'))
                                       ELSE transactions
  /\ UNCHANGED <<data, pc, ocr_vars, dedup_vars, response>>

\* return transactions; seen = set(); unique_transactions = []
StartDedup ==
  /\ pc = "extract_lines"
  /\ i = Len(all_lines)
  /\ pc' = "dedup"
  /\ j' = 0
  /\ seen' = {}
  /\ unique_transactions' = <<>>
  /\ UNCHANGED <<data, ocr_vars, line_vars, response>>

\* one iteration of: for txn in transactions
DedupStep ==
  /\ pc = "dedup"
  /\ j < Len(transactions)
  /\ LET st == DedupIter([seen |-> seen, unique |-> unique_transactions],
                         transactions[j + 1])
     IN /\ seen' = st.seen
        /\ unique_transactions' = st.unique
  /\ j' = j + 1
  /\ UNCHANGED <<data, pc, ocr_vars, line_vars, response>>

\* return {"transactions": ..., "error": None, "pages_processed": len(images)}
ReturnOk ==
  /\ pc = "dedup"
  /\ j = Len(transactions)
  /\ pc' = "returned_ok"
  /\ response' = OkEnvelope(unique_transactions, images)
  /\ UNCHANGED <<data, ocr_vars, line_vars, dedup_vars>>

Next ==
  \/ Decode
  \/ SaveTempFile
  \/ ConvertPages
  \/ InitOcr
  \/ OcrPage
  \/ CallExtractLines
  \/ ExtractLine
  \/ StartDedup
  \/ DedupStep
  \/ ReturnOk

Spec == Init /\ [][Next]_vars

Returned == pc \in {"returned_ok", "returned_no_pdf", "returned_except"}

----------------------------------------------------------------------------
(* Vocabulary of the properties *)

Range(f) == {f[k] : k \in DOMAIN f}

\* the subsequence of txns at the positions in idx, in increasing order
SubsequenceAt(txns, idx) ==
  [n \in 1 .. Cardinality(idx) |->
     txns[CHOOSE k \in idx : Cardinality({m \in idx : m <= k}) = n]]

\* the positions of txns whose key no earlier position has
FirstPositions(txns) ==
  {k \in 1 .. Len(txns) : \A m \in 1 .. (k - 1) : Key(txns[m]) # Key(txns[k])}

\* the candidates the dedup loop has gone through
Consumed == SubSeq(transactions, 1, j)

\* YYYY-MM-DD naming a day of the calendar
IsIsoDate(d) ==
  /\ Len(d) = 10
  /\ MatchYmdDash(d, 1) = 10
  /\ NumVal(SubSeq(d, 1, 4)) >= 1
  /\ NumVal(SubSeq(d, 6, 7)) \in 1 .. 12
  /\ NumVal(SubSeq(d, 9, 10)) \in
       1 .. DaysInMonth(NumVal(SubSeq(d, 1, 4)), NumVal(SubSeq(d, 6, 7)))

\* four decimal digits of a year in 0..9999
Pad4(n) == Pad2(n \div 100) \o Pad2(n % 100)

\* the ISO 8601 form of a date
IsoForm(dt) == Pad4(dt.year) \o <<"-">> \o Pad2(dt.month) \o <<"-">> \o Pad2(dt.day)

\* the date the k-th pattern/format pair reads in text, if it reads one
PatternDate(text, k) ==
  Strptime(StrReplaceEmpty(ReSearch(patterns[k].re, text), <<",">>),
           patterns[k].fmt)

PatternYields(text, k) ==
  ReSearch(patterns[k].re, text) # <<>> /\ PatternDate(text, k).ok

\* no leading or trailing whitespace and no two whitespace characters in a row
IsCollapsed(d) ==
  /\ d # <<>> => (d[1] \notin Space /\ d[Len(d)] \notin Space)
  /\ \A k \in 1 .. (Len(d) - 1) : ~ (d[k] \in Space /\ d[k + 1] \in Space)

\* the last amount substring of a line that has one
LastFound(text) ==
  ReFindAll("amount", text)[Len(ReFindAll("amount", text))]

\* a line that passes every test of the extraction loop
Qualifies(text) ==
  /\ parse_date(text) # <<>>
  /\ ReFindAll("amount", text) # <<>>
  /\ parse_amount(LastFound(text)) > 0
  /\ Len(IsolateDescription(text, ReFindAll("amount", text))) > 3

\* a valid ISO date, a label of at most 3 characters and a positive amount
IsIsoShortLabelLine(text) ==
  LET w == StrSplit(text)
  IN /\ Len(w) = 3
     /\ Len(w[1]) = 10 /\ MatchYmdDash(w[1], 1) = 10
     /\ Strptime(w[1], "%Y-%m-%d").ok
     /\ Len(w[2]) <= 3
     /\ MatchAmount(w[3], 1) = Len(w[3])
     /\ parse_amount(w[3]) > 0

\* one iteration of the extraction loop has just run
LineStep == pc = "extract_lines" /\ pc' = "extract_lines" /\ i' = i + 1

\* "2024-03-15"
GroceryDate ==
  <<"2", "0", "2", "4", "-", "0", "3", "-", "1", "5">>

\* "GROCERY STORE PURCHASE"
GroceryDescription ==
  <<"G", "R", "O", "C", "E", "R", "Y", " ", "S", "T", "O", "R", "E",
    " ", "P", "U", "R", "C", "H", "A", "S", "E">>

----------------------------------------------------------------------------
(* Properties *)

(* C1: the deduplication keeps, in their original order, exactly the first *)
(* candidate of each distinct key: at every point of the loop and in the   *)
(* returned envelope, the output is the subsequence of first occurrences   *)
(* of the candidates gone through, no two output records share a key, and  *)
(* every such candidate's key belongs to exactly one output record.        *)
C1_FirstOccurrenceWins ==
  pc \in {"dedup", "returned_ok"} =>
    /\ unique_transactions = SubsequenceAt(Consumed, FirstPositions(Consumed))
    /\ \A a, b \in 1 .. Len(unique_transactions) :
         a # b => Key(unique_transactions[a]) # Key(unique_transactions[b])
    /\ \A k \in 1 .. Len(Consumed) :
         Cardinality({a \in 1 .. Len(unique_transactions) :
                        Key(unique_transactions[a]) = Key(Consumed[k])}) = 1
    /\ pc = "returned_ok" =>
         /\ j = Len(transactions)
         /\ response.transactions = unique_transactions

\* a run returned where a duplicate was dropped between two kept records
C1_Witness ==
  /\ pc = "returned_ok"
  /\ Len(response.transactions) >= 2
  /\ \E k \in 1 .. Len(transactions) :
       /\ k \notin FirstPositions(transactions)
       /\ k < Len(transactions)
       /\ (k + 1) \in FirstPositions(transactions)

(* C2 as stated: the line "03/15/2024 GROCERY STORE PURCHASE 1,234.56"     *)
(* yields exactly one candidate, dated 2024-03-15, described "GROCERY      *)
(* STORE PURCHASE", of amount 1234.56.                                     *)
C2_GroceryCandidate ==
  (pc = "extract_lines" /\ i = 1 /\ line = LineGrocery) =>
    transactions = << [date |-> GroceryDate,
                       description |-> GroceryDescription,
                       amount |-> 123456] >>

(* C2 amended: the line "03/15/2024 GROCERY STORE PURCHASE 1,234.56"       *)
(* yields no candidate, because no date is recognized in it: the day-first *)
(* patterns read month 15 and no other pattern matches.                    *)
C2_GroceryRejected ==
  (pc = "extract_lines" /\ i = 1 /\ line = LineGrocery) =>
    /\ date = <<>>
    /\ transactions = <<>>
    /\ ReSearch("dmy_slash", line) # <<>>
    /\ \A k \in 1 .. Len(patterns) : ~ PatternYields(line, k)

\* the extraction ran on the grocery line as its first line
C2_Witness ==
  pc = "extract_lines" /\ i = 1 /\ line = LineGrocery /\ all_lines[1] = LineGrocery

(* C3: a line made of a valid ISO date, a label of at most 3 characters    *)
(* and a positive two-decimal amount yields no candidate.                  *)
C3_IsoShortLabelRejected ==
  [][(LineStep /\ IsIsoShortLabelLine(line')) => transactions' = transactions]_vars

(* C4: parse_date returns the ISO form of the date read by the first of    *)
(* the five pattern/format pairs, in their order, whose leftmost match     *)
(* parses as a calendar date, going on to the later pairs after a match    *)
(* that fails validation, and returns none exactly when no pair reads a    *)
(* valid date.                                                             *)
C4_FirstValidPatternIso ==
  (pc = "extract_lines" /\ i >= 1) =>
    LET yields == {k \in 1 .. Len(patterns) : PatternYields(line, k)}
    IN /\ Len(patterns) = 5
       /\ [k \in 1 .. Len(patterns) |-> patterns[k].fmt] =
            <<"%Y-%m-%d", "%d/%m/%Y", "%d-%m-%Y", "%d/%m/%y", "%b %d %Y">>
       /\ date = IF yields = {} THEN <<>>
                 ELSE IsoForm(PatternDate(line, Min(yields)))

(* C5: a candidate's amount is the absolute parsed value of the last       *)
(* two-decimal amount substring found in its line, and a line whose last   *)
(* amount does not parse or is zero yields no candidate, whatever the      *)
(* earlier amounts.                                                        *)
C5_LastAmountWins ==
  [][LineStep =>
       /\ Len(transactions') > Len(transactions) =>
            /\ ReFindAll("amount", line') # <<>>
            /\ transactions'[Len(transactions')].amount =
                 parse_amount(LastFound(line'))
       /\ (/\ ReFindAll("amount", line') # <<>>
           /\ parse_amount(LastFound(line')) \in {NoAmount, 0}) =>
            transactions' = transactions]_vars

\* a candidate was built from a line with two different amounts
C5_Witness ==
  /\ pc = "extract_lines"
  /\ line = LineTwoAmounts
  /\ Len(amounts) = 2
  /\ parse_amount(amounts[1]) # parse_amount(amounts[2])
  /\ transactions # <<>>
  /\ transactions[Len(transactions)].amount = parse_amount(amounts[2])

(* C6: deduplicating the returned transactions again returns them          *)
(* unchanged, same records in the same order.                              *)
C6_DedupIdempotent ==
  pc = "returned_ok" => Dedupe(response.transactions) = response.transactions

\* a returned list of several records that lost a duplicate
C6_Witness ==
  /\ pc = "returned_ok"
  /\ Len(response.transactions) >= 3
  /\ Len(response.transactions) < Len(transactions)

(* C7 as stated: every envelope returned reports the transactions, the     *)
(* error and the number of pages processed; error is null exactly when     *)
(* the run succeeded and the transactions are empty when it is not null.   *)
C7_EnvelopeAlwaysComplete ==
  Returned =>
    /\ {"transactions", "error", "pages_processed"} \subseteq DOMAIN response
    /\ (response.error = PyNone) <=> (pc = "returned_ok")
    /\ response.error # PyNone => response.transactions = <<>>

(* C7 amended: every envelope returned reports the transactions and the    *)
(* error; the number of pages processed is reported by the envelope of a   *)
(* successful run only, where it is the number of page images; error is    *)
(* null exactly when the run succeeded and the transactions are empty      *)
(* when it is not null.  Every failure ends in an envelope.                *)
C7_EnvelopeShape ==
  /\ Returned =>
       /\ {"transactions", "error"} \subseteq DOMAIN response
       /\ ("pages_processed" \in DOMAIN response) <=> (pc = "returned_ok")
       /\ pc = "returned_ok" => response.pages_processed = images
       /\ (response.error = PyNone) <=> (pc = "returned_ok")
       /\ response.error # PyNone =>
            /\ response.transactions = <<>>
            /\ response.error.type = "str"
  /\ ~ Returned => response = NoResponse

\* an OCR failure after a page with lines was read ended in an envelope
C7_Witness ==
  /\ pc = "returned_except"
  /\ page >= 1
  /\ all_lines # <<>>
  /\ response.error = PyStr("")

(* C8: two candidates have the same deduplication key if and only if they  *)
(* agree on the date, on the amount and on the first 20 characters of the  *)
(* description.                                                            *)
C8_KeyInjective ==
  \A a, b \in 1 .. Len(transactions) :
    (Key(transactions[a]) = Key(transactions[b])) <=>
      /\ transactions[a].date = transactions[b].date
      /\ transactions[a].amount = transactions[b].amount
      /\ Prefix(transactions[a].description, KeyPrefix) =
           Prefix(transactions[b].description, KeyPrefix)

\* candidates with the separator in a description, two different records
\* of one key, and two records that differ in the amount only
C8_Witness ==
  /\ \E a \in 1 .. Len(transactions) : "_" \in Range(transactions[a].description)
  /\ \E a, b \in 1 .. Len(transactions) :
       /\ transactions[a] # transactions[b]
       /\ Key(transactions[a]) = Key(transactions[b])
  /\ \E a, b \in 1 .. Len(transactions) :
       /\ transactions[a].amount # transactions[b].amount
       /\ transactions[a].date = transactions[b].date
       /\ transactions[a].description = transactions[b].description

(* C9: every record has a date in YYYY-MM-DD form that names a calendar    *)
(* day, an amount above 0 and a description of 4 to 100 characters, and    *)
(* the records are those of the lines with a recognized date, a            *)
(* two-decimal amount, a non-zero last amount and an isolated description  *)
(* longer than 3.                                                          *)
C9_RecordsWellFormed ==
  /\ \A k \in 1 .. Len(transactions) :
       /\ IsIsoDate(transactions[k].date)
       /\ transactions[k].amount > 0
       /\ Len(transactions[k].description) >= 4
       /\ Len(transactions[k].description) <= DescMax
  /\ pc = "extract_lines" =>
       Len(transactions) = Cardinality({k \in 1 .. i : Qualifies(all_lines[k])})

(* C10: every description of a record has no leading or trailing           *)
(* whitespace and no run of two or more whitespace characters.             *)
C10_DescriptionsCollapsed ==
  \A k \in 1 .. Len(transactions) : IsCollapsed(transactions[k].description)

====
